---------------------------- MODULE Spec2Model ----------------------------
(***************************************************************************)
(* A model of dask_compat.py: the optional-dependency import helper        *)
(* import_optional_dependency, with get_version and the two tables         *)
(* VERSIONS and INSTALL_MAPPING.                                           *)
(*                                                                         *)
(* Representation.  TLC cannot take a string apart, so every Python string *)
(* the code inspects character by character (a version string) is a        *)
(* sequence of one-character strings.  A dotted module name is the         *)
(* sequence of its segments, so name.split(".")[0] is name[1].  A message  *)
(* built by an f-string is a record: its template ("kind") and the values  *)
(* interpolated into it.  Python's None is the value None below.           *)
(***************************************************************************)
EXTENDS Integers, Sequences, FiniteSets, TLC

VARIABLES
    pkg,              \* the top-level package this process deals with
    top_importable,   \* the import system can load the top-level package
    sub_importable,   \* ... and its submodule
    top_version,      \* __version__ of the top-level module (None: no attribute)
    sub_version,      \* __version__ of the submodule (None: no attribute)
    sys_modules,      \* sys.modules: the names of the modules already loaded
    pc,               \* "idle" before the call, "done" after it
    name,             \* arguments of the call
    extra,
    min_version,
    errors,
    outcome,          \* "return" or "raise"
    result,           \* the value returned: a module (its name) or None
    exc,              \* the exception raised: [type, msg], or NoExc
    warnings,         \* the warnings emitted by the call, in order
    import_calls,     \* calls of importlib.import_module made by the call
    version_reads,    \* reads of a module's __version__ made by the call
    minimum_version   \* the local minimum_version of line 104 (None if unset)

vars == <<pkg, top_importable, sub_importable, top_version, sub_version,
          sys_modules, pc, name, extra, min_version, errors, outcome, result,
          exc, warnings, import_calls, version_reads, minimum_version>>

envVars == <<pkg, top_importable, sub_importable, top_version, sub_version>>

-----------------------------------------------------------------------------
(* Python values *)

None == <<"<None>">>

NoExc == [type |-> "", msg |-> [kind |-> ""]]

\* Python truthiness of an Optional[str]: None and "" are falsy.
Truthy(s) == s # None /\ s # <<>>

-----------------------------------------------------------------------------
(* Characters and decimal numbers *)

DigitChars == <<"0", "1", "2", "3", "4", "5", "6", "7", "8", "9">>

IsDigit(c) == \E i \in 1..Len(DigitChars) : DigitChars[i] = c

DigitVal(c) == (CHOOSE i \in 1..Len(DigitChars) : DigitChars[i] = c) - 1

IsSpace(c) == c = " "

\* int(): the number a non-empty sequence of digits denotes.
RECURSIVE DigitsToInt(_)
DigitsToInt(ds) ==
    IF ds = <<>> THEN 0
    ELSE DigitsToInt(SubSeq(ds, 1, Len(ds) - 1)) * 10 + DigitVal(ds[Len(ds)])

\* str() of a natural number.
RECURSIVE IntToDigits(_)
IntToDigits(n) ==
    IF n < 10 THEN <<DigitChars[n + 1]>>
    ELSE IntToDigits(n \div 10) \o <<DigitChars[(n % 10) + 1]>>

\* The number of leading characters of s, from position i on, that are
\* digits, blanks, or no blanks.
RECURSIVE DigitSpan(_, _)
DigitSpan(s, i) == IF i <= Len(s) /\ IsDigit(s[i]) THEN DigitSpan(s, i + 1) ELSE i - 1

RECURSIVE SpaceSpan(_, _)
SpaceSpan(s, i) == IF i <= Len(s) /\ IsSpace(s[i]) THEN SpaceSpan(s, i + 1) ELSE i - 1

RECURSIVE WordSpan(_, _)
WordSpan(s, i) == IF i <= Len(s) /\ ~IsSpace(s[i]) THEN WordSpan(s, i + 1) ELSE i - 1

Drop(s, n) == SubSeq(s, n + 1, Len(s))

Take(s, n) == SubSeq(s, 1, n)

\* str.strip() for the whitespace of the model's alphabet.
RECURSIVE Strip(_)
Strip(s) ==
    IF s = <<>> THEN s
    ELSE IF IsSpace(s[1]) THEN Strip(Drop(s, 1))
    ELSE IF IsSpace(s[Len(s)]) THEN Strip(Take(s, Len(s) - 1))
    ELSE s

\* str.split(): the whitespace-separated tokens of s.
RECURSIVE Split(_)
Split(s) ==
    LET t == Drop(s, SpaceSpan(s, 1))
        n == WordSpan(t, 1)
    IN  IF t = <<>> THEN <<>> ELSE <<Take(t, n)>> \o Split(Drop(t, n))


-----------------------------------------------------------------------------
(* packaging.version.Version, for the version strings of this model: an    *)
(* optionally whitespace-padded release N(.N)* with an optional            *)
(* pre-release a|b|c|rc followed by digits.  The other forms PEP 440       *)
(* admits (epoch, post, dev, local, separators, a leading v) do not occur  *)
(* among the strings drawn below, and anything else is InvalidVersion.     *)

NoPre == [l |-> "", n |-> 0]

InvalidVersion == [ok |-> FALSE, release |-> <<>>, pre |-> NoPre]

\* The release segment at the head of t and the text after it.
RECURSIVE ParseRelease(_)
ParseRelease(t) ==
    LET n    == DigitSpan(t, 1)
        num  == DigitsToInt(Take(t, n))
        rest == Drop(t, n)
    IN  IF n = 0 THEN [ok |-> FALSE, release |-> <<>>, rest |-> t]
        ELSE IF Len(rest) >= 2 /\ rest[1] = "." /\ IsDigit(rest[2])
        THEN LET r == ParseRelease(Drop(rest, 1))
             IN  [ok |-> TRUE, release |-> <<num>> \o r.release, rest |-> r.rest]
        ELSE [ok |-> TRUE, release |-> <<num>>, rest |-> rest]

\* The pre-release segment: the whole of t, or no match.
ParsePre(t) ==
    LET letter == IF Len(t) >= 2 /\ t[1] = "r" /\ t[2] = "c" THEN <<"rc", 2>>
                  ELSE IF Len(t) >= 1 /\ t[1] = "c" THEN <<"rc", 1>>
                  ELSE IF Len(t) >= 1 /\ t[1] = "a" THEN <<"a", 1>>
                  ELSE IF Len(t) >= 1 /\ t[1] = "b" THEN <<"b", 1>>
                  ELSE <<"", 0>>
        digits == Drop(t, letter[2])
    IN  IF letter[1] = "" \/ DigitSpan(digits, 1) # Len(digits)
        THEN [ok |-> FALSE, pre |-> NoPre]
        ELSE [ok |-> TRUE, pre |-> [l |-> letter[1], n |-> DigitsToInt(digits)]]

\* Version(s): the parsed version, or InvalidVersion.
Version(s) ==
    LET r == ParseRelease(Strip(s))
        p == ParsePre(r.rest)
    IN  IF ~r.ok THEN InvalidVersion
        ELSE IF r.rest = <<>> THEN [ok |-> TRUE, release |-> r.release, pre |-> NoPre]
        ELSE IF p.ok THEN [ok |-> TRUE, release |-> r.release, pre |-> p.pre]
        ELSE InvalidVersion

\* The release with its trailing zeros dropped, as the comparison key has it.
RECURSIVE StripZeros(_)
StripZeros(rel) ==
    IF rel # <<>> /\ rel[Len(rel)] = 0 THEN StripZeros(Take(rel, Len(rel) - 1))
    ELSE rel

\* Python's ordering of tuples of integers.
RECURSIVE TupleLt(_, _)
TupleLt(a, b) ==
    IF b = <<>> THEN FALSE
    ELSE IF a = <<>> THEN TRUE
    ELSE IF a[1] # b[1] THEN a[1] < b[1]
    ELSE TupleLt(Drop(a, 1), Drop(b, 1))

\* A final release sorts after each of its pre-releases: a < b < rc < final.
PreRank(pre) ==
    CASE pre.l = "a" -> 1 [] pre.l = "b" -> 2 [] pre.l = "rc" -> 3 [] OTHER -> 4

\* str(Version): the normalised text of a parsed version.
RECURSIVE ReleaseStr(_)
ReleaseStr(rel) ==
    IF Len(rel) = 1 THEN IntToDigits(rel[1])
    ELSE ReleaseStr(Take(rel, Len(rel) - 1)) \o <<".">> \o IntToDigits(rel[Len(rel)])

VersionStr(v) ==
    ReleaseStr(v.release) \o
    (CASE v.pre.l = "rc" -> <<"r", "c">> \o IntToDigits(v.pre.n)
       [] v.pre.l \in {"a", "b"} -> <<v.pre.l>> \o IntToDigits(v.pre.n)
       [] OTHER -> <<>>)

\* Version._key: what two versions are compared by.
CmpKey(v) == [release |-> StripZeros(v.release), pre |-> <<PreRank(v.pre), v.pre.n>>]

KeyLt(k, m) ==
    \/ TupleLt(k.release, m.release)
    \/ k.release = m.release /\ TupleLt(k.pre, m.pre)

\* Version.__lt__
VersionLt(a, b) == KeyLt(CmpKey(a), CmpKey(b))

-----------------------------------------------------------------------------
(* The tables *)

VERSIONS ==
    ("numpy" :> <<"1", ".", "2", "1", ".", "0">>) @@ ("pandas" :> <<"2", ".", "0", ".", "0">>) @@
    ("bokeh" :> <<"2", ".", "4", ".", "2">>) @@ ("jinja2" :> <<"2", ".", "1", "0", ".", "3">>) @@
    ("pyarrow" :> <<"7", ".", "0", ".", "0">>) @@ ("lz4" :> <<"4", ".", "3", ".", "2">>)

INSTALL_MAPPING ==
    (<<"sqlalchemy">> :> <<"SQLAlchemy">>) @@ (<<"tables">> :> <<"pytables">>)

-----------------------------------------------------------------------------
(* The environment: the import system, sys.modules and the modules'        *)
(* __version__ attributes.  A module object is identified with its name.   *)

Top(p) == <<p>>

Sub(p) == <<p, "core">>

\* module.__version__, or None where the module has no such attribute.
VersionAttr(module) == IF Len(module) = 1 THEN top_version ELSE sub_version

\* What the finders can load.
Importable(module) == IF Len(module) = 1 THEN top_importable ELSE sub_importable

\* importlib.import_module(name): a module already in sys.modules is
\* returned as it is; otherwise the packages on the path to it are loaded
\* parent first, each entering sys.modules as it is loaded, and the first
\* one that cannot be found ends the import with ImportError.
RECURSIVE ImportModule(_, _)
ImportModule(n, loaded) ==
    LET up == IF Len(n) = 1 THEN [ok |-> TRUE, loaded |-> loaded]
              ELSE ImportModule(Take(n, Len(n) - 1), loaded)
    IN  IF n \in loaded THEN [ok |-> TRUE, loaded |-> loaded]
        ELSE IF ~up.ok THEN up
        ELSE IF Importable(n) THEN [ok |-> TRUE, loaded |-> up.loaded \cup {n}]
        ELSE [ok |-> FALSE, loaded |-> up.loaded]

-----------------------------------------------------------------------------
(* How a call ends *)

Returns(value, warned, imports, reads, minimum, loaded) ==
    [outcome |-> "return", result |-> value, exc |-> NoExc, warnings |-> warned,
     import_calls |-> imports, version_reads |-> reads,
     minimum_version |-> minimum, sys_modules |-> loaded]

Raises(type, msg, imports, reads, minimum, loaded) ==
    [outcome |-> "raise", result |-> None, exc |-> [type |-> type, msg |-> msg],
     warnings |-> <<>>, import_calls |-> imports, version_reads |-> reads,
     minimum_version |-> minimum, sys_modules |-> loaded]

-----------------------------------------------------------------------------
(* get_version *)

UndeterminedMsg(module) == [kind |-> "Cannot determine the version", module |-> module]

\* get_version(module): the version string, or the exception raised.
get_version(module) ==
    LET version == VersionAttr(module)
    IN  IF ~Truthy(version)
        THEN [ok |-> FALSE, type |-> "ImportError", msg |-> UndeterminedMsg(module),
              version |-> None]
        ELSE IF module = Top("psycopg2")
        THEN IF Split(version) = <<>>
             THEN [ok |-> FALSE, type |-> "IndexError",
                   msg |-> [kind |-> "list index out of range"], version |-> None]
             ELSE [ok |-> TRUE, type |-> "", msg |-> [kind |-> ""],
                   version |-> Split(version)[1]]
        ELSE [ok |-> TRUE, type |-> "", msg |-> [kind |-> ""], version |-> version]

-----------------------------------------------------------------------------
(* import_optional_dependency *)

\* A plausible slip: no validation of errors.
AnyErrorsValue(e) == TRUE

\* line 84: the asserted condition
ValidErrors(e) == e \in {"warn", "raise", "ignore"}

AssertionMsg == [kind |-> "Invalid error handling strategy specified."]

\* A plausible slip: the import name used where the package name is meant.
PackageNameUnmapped(n) == n

\* line 86: INSTALL_MAPPING.get(name, name)
PackageName(n) == IF n \in DOMAIN INSTALL_MAPPING THEN INSTALL_MAPPING[n] ELSE n

\* lines 87-90
MissingMsg(package_name, ex) ==
    [kind |-> "Missing optional dependency", package |-> package_name,
     extra |-> ex, install |-> package_name]

\* A plausible slip: "warn" warning about a missing module too.
ImportFailedWarns(e, msg, loaded) ==
    IF e = "raise" THEN Raises("ImportError", msg, 1, 0, None, loaded)
    ELSE IF e = "warn" THEN Returns(None, <<msg>>, 1, 0, None, loaded)
    ELSE Returns(None, <<>>, 1, 0, None, loaded)

\* lines 94-97: the except ImportError branch
ImportFailed(e, msg, loaded) ==
    IF e = "raise" THEN Raises("ImportError", msg, 1, 0, None, loaded)
    ELSE Returns(None, <<>>, 1, 0, None, loaded)

\* line 100: name.split(".")[0]
Parent(n) == n[1]

\* line 101: sys.modules.get(parent, module)
ModuleToCheck(parent, module, loaded) ==
    IF Top(parent) \in loaded THEN Top(parent) ELSE module

\* A plausible slip: the table taking precedence over the argument.
MinimumVersionTableFirst(minv, parent) ==
    IF parent \in DOMAIN VERSIONS THEN VERSIONS[parent]
    ELSE IF Truthy(minv) THEN minv ELSE None

\* A plausible slip: a floor of "0" where neither the argument nor the
\* table gives one, so that the version is looked at all the same.
MinimumVersionDefaultZero(minv, parent) ==
    IF Truthy(minv) THEN minv
    ELSE IF parent \in DOMAIN VERSIONS THEN VERSIONS[parent] ELSE <<"0">>

\* line 104: min_version or VERSIONS.get(parent)
MinimumVersion(minv, parent) ==
    IF Truthy(minv) THEN minv
    ELSE IF parent \in DOMAIN VERSIONS THEN VERSIONS[parent] ELSE None

InvalidMsg(parent) == [kind |-> "Invalid version for the module", module |-> Top(parent)]

\* lines 113-116
VersionMsg(parent, installed_version, required_version) ==
    [kind |-> "version is installed; Dask requires version or newer",
     parent |-> parent,
     installed |-> VersionStr(installed_version),
     required |-> VersionStr(required_version)]

\* A plausible slip: "warn" warning and then falling through to the return
\* of the module.
TooOldWarnFallsThrough(e, version_msg, module, minimum, loaded) ==
    IF e = "warn" THEN Returns(module, <<version_msg>>, 1, 1, minimum, loaded)
    ELSE IF e = "raise" THEN Raises("ImportError", version_msg, 1, 1, minimum, loaded)
    ELSE Returns(None, <<>>, 1, 1, minimum, loaded)

\* A plausible slip: the policy branches in the wrong order, "raise"
\* ending like "ignore".
TooOldRaiseIgnored(e, version_msg, module, minimum, loaded) ==
    IF e = "warn" THEN Returns(None, <<version_msg>>, 1, 1, minimum, loaded)
    ELSE Returns(None, <<>>, 1, 1, minimum, loaded)

\* lines 117-123: installed_version < required_version
TooOld(e, version_msg, module, minimum, loaded) ==
    IF e = "warn" THEN Returns(None, <<version_msg>>, 1, 1, minimum, loaded)
    ELSE IF e = "raise" THEN Raises("ImportError", version_msg, 1, 1, minimum, loaded)
    ELSE Returns(None, <<>>, 1, 1, minimum, loaded)

\* Python's ordering of str, on the characters a normalised version has.
CharRank(c) == IF c = "." THEN 0 ELSE IF IsDigit(c) THEN 1 + DigitVal(c) ELSE 11

RECURSIVE TextLt(_, _)
TextLt(s, t) ==
    IF t = <<>> THEN FALSE
    ELSE IF s = <<>> THEN TRUE
    ELSE IF CharRank(s[1]) # CharRank(t[1]) THEN CharRank(s[1]) < CharRank(t[1])
    ELSE TextLt(Drop(s, 1), Drop(t, 1))

\* A plausible slip: the versions compared as text ("2.9.3" > "2.10.3").
IsTooOldAsText(installed_version, required_version) ==
    TextLt(VersionStr(installed_version), VersionStr(required_version))

\* A plausible slip: <= where < is meant.
IsTooOldOrEqual(installed_version, required_version) ==
    ~VersionLt(required_version, installed_version)

\* line 112: installed_version < required_version
IsTooOld(installed_version, required_version) ==
    VersionLt(installed_version, required_version)

\* lines 105-125: the version check and the final return
CheckVersion(n, e, module, minimum, loaded) ==
    LET parent          == Parent(n)
        module_to_check == ModuleToCheck(parent, module, loaded)
        got             == get_version(module_to_check)
        installed       == Version(got.version)
        required        == Version(minimum)
    IN  IF ~Truthy(minimum) THEN Returns(module, <<>>, 1, 0, minimum, loaded)
        ELSE IF ~got.ok THEN Raises(got.type, got.msg, 1, 1, minimum, loaded)
        ELSE IF ~installed.ok
        THEN Raises("ImportError", InvalidMsg(parent), 1, 1, minimum, loaded)
        ELSE IF ~required.ok
        THEN Raises("InvalidVersion", [kind |-> "Invalid version"], 1, 1, minimum, loaded)
        ELSE IF IsTooOld(installed, required)
        THEN TooOld(e, VersionMsg(parent, installed, required), module, minimum, loaded)
        ELSE Returns(module, <<>>, 1, 1, minimum, loaded)

\* lines 84-125: the whole call, from the state of sys.modules before it.
\* The assert of line 84 is the statement of a default run (python without
\* -O); an import that fails does so with ImportError, the one exception
\* line 94 handles.
import_optional_dependency(n, ex, minv, e) ==
    LET package_name == PackageName(n)
        msg          == MissingMsg(package_name, ex)
        imported     == ImportModule(n, sys_modules)
    IN  IF ~ValidErrors(e)
        THEN Raises("AssertionError", AssertionMsg, 0, 0, None, sys_modules)
        ELSE IF ~imported.ok THEN ImportFailed(e, msg, imported.loaded)
        ELSE CheckVersion(n, e, n, MinimumVersion(minv, Parent(n)), imported.loaded)

-----------------------------------------------------------------------------
(* The inputs *)

MaxMajor == 2

Minors == {0, 9, 10, 21}

Patches == {0, 3}

Packages == {"numpy", "jinja2", "sqlalchemy", "psycopg2"}

Releases ==
    {ReleaseStr(<<a, b, c>>) : a \in 1..MaxMajor, b \in Minors, c \in Patches}

\* What a module's __version__ may hold: nothing, "", a release, a release
\* of two segments, a pre-release, a padded release, psycopg2's decorated
\* version, blanks, and text that is no version.
VersionAttrs ==
    Releases \cup
    {None, <<>>, <<"1", ".", "2", "1">>, <<"1", ".", "2", "1", ".", "0", "r", "c", "1">>, <<" ", "2", ".", "1", "0", ".", "3", " ">>, <<"2", ".", "9", ".", "3", " ", "(", "d", "t", " ", "d", "e", "c", " ", "p", "q", "3", " ", "e", "x", "t", " ", "l", "o", "6", "4", ")">>, <<" ">>, <<"u", "n", "k", "n", "o", "w", "n">>}

SubVersionAttrs == {None, <<"3", ".", "0", ".", "0">>}

MinVersions == {None, <<>>, <<"1", ".", "2", "1", ".", "0">>, <<"2", ".", "0">>, <<"2", ".", "1", "0", ".", "3">>, <<"l", "a", "t", "e", "s", "t">>}

Extras == {"", "for SQL support"}

ErrorsValues == {"raise", "warn", "ignore", "coerce"}

Names(p) == {Top(p), Sub(p)}

-----------------------------------------------------------------------------
(* The state machine: a process in some environment makes one call. *)

Init ==
    /\ pkg \in Packages
    /\ top_importable \in BOOLEAN
    /\ sub_importable \in IF top_importable THEN BOOLEAN ELSE {FALSE}
    /\ top_version \in IF top_importable THEN VersionAttrs ELSE {None}
    /\ sub_version \in IF sub_importable THEN SubVersionAttrs ELSE {None}
    /\ sys_modules \in
         {{}} \cup (IF top_importable THEN {{Top(pkg)}} ELSE {})
              \cup (IF sub_importable THEN {{Top(pkg), Sub(pkg)}} ELSE {})
    /\ pc = "idle"
    /\ name = <<>>
    /\ extra = ""
    /\ min_version = None
    /\ errors = ""
    /\ outcome = ""
    /\ result = None
    /\ exc = NoExc
    /\ warnings = <<>>
    /\ import_calls = 0
    /\ version_reads = 0
    /\ minimum_version = None

Call ==
    /\ pc = "idle"
    /\ \E n \in Names(pkg), ex \in Extras, minv \in MinVersions, e \in ErrorsValues :
         LET r == import_optional_dependency(n, ex, minv, e)
         IN  /\ name' = n
             /\ extra' = ex
             /\ min_version' = minv
             /\ errors' = e
             /\ outcome' = r.outcome
             /\ result' = r.result
             /\ exc' = r.exc
             /\ warnings' = r.warnings
             /\ import_calls' = r.import_calls
             /\ version_reads' = r.version_reads
             /\ minimum_version' = r.minimum_version
             /\ sys_modules' = r.sys_modules
    /\ pc' = "done"
    /\ UNCHANGED envVars

Next == Call

Spec == Init /\ [][Next]_vars

-----------------------------------------------------------------------------
(* What the properties speak of, read off the environment and the          *)
(* arguments rather than off the call's own intermediate values.           *)

Done == pc = "done"

PolicyValues == {"raise", "warn", "ignore"}

\* The import of name succeeds: the package, and for a dotted name its
\* submodule too, is there to be loaded.
ImportSucceeds == top_importable /\ (Len(name) = 2 => sub_importable)

ImportFails == ~ImportSucceeds

\* The floor that applies: min_version where one is given, else the VERSIONS
\* entry of the top-level package, else none.  (An empty min_version is no
\* version; C10 is about which of the two the code then takes.)
Floor ==
    IF min_version # None /\ min_version # <<>> THEN min_version
    ELSE IF pkg \in DOMAIN VERSIONS THEN VERSIONS[pkg]
    ELSE None

FloorApplies == Floor # None

\* The version the top-level package reports: its __version__, cut at the
\* first blank for psycopg2.
ReportedVersion ==
    IF pkg = "psycopg2" /\ Split(top_version) # <<>> THEN Split(top_version)[1]
    ELSE top_version

HasVersion == top_version # None /\ top_version # <<>>

InstalledParses == HasVersion /\ Version(ReportedVersion).ok

FloorParses == FloorApplies /\ Version(Floor).ok

BelowFloor ==
    InstalledParses /\ FloorParses /\ VersionLt(Version(ReportedVersion), Version(Floor))

MeetsFloor ==
    InstalledParses /\ FloorParses /\ ~VersionLt(Version(ReportedVersion), Version(Floor))

ReturnsModule == outcome = "return" /\ result = name

ReturnsNone == outcome = "return" /\ result = None

RaisesError(type) == outcome = "raise" /\ exc.type = type

\* The package name a message is to carry.
InstallName ==
    IF name = <<"sqlalchemy">> THEN <<"SQLAlchemy">>
    ELSE IF name = <<"tables">> THEN <<"pytables">>
    ELSE name

-----------------------------------------------------------------------------
\* C1: a call for which a floor applies returns a module only if the
\* installed version of the top-level package is at least the floor; and
\* every call ends in a returned module, in None (under warn or ignore
\* only), or in an exception.
C1_ReturnedModuleMeetsFloor ==
    Done =>
      /\ (FloorApplies /\ outcome = "return" /\ result # None) => MeetsFloor
      /\ \/ ReturnsModule
         \/ ReturnsNone /\ errors \in {"warn", "ignore"}
         \/ outcome = "raise" /\ exc # NoExc

\* A submodule of a package of the table is returned, the package at its floor
\* and the submodule carrying a version of its own.
C1_Witness ==
    /\ Done /\ ReturnsModule /\ Len(name) = 2 /\ min_version = None
    /\ pkg = "jinja2" /\ top_version = <<"2", ".", "1", "0", ".", "3">> /\ sub_version # None

\* C2: a failed import under errors = "raise" raises ImportError, and the
\* message carries the installable package name (the INSTALL_MAPPING entry of
\* the name, else the name) and the extra text.
C2_MissingRaisesWithPackageName ==
    (Done /\ ImportFails /\ errors = "raise") =>
      /\ RaisesError("ImportError")
      /\ exc.msg.kind = "Missing optional dependency"
      /\ exc.msg.package = InstallName
      /\ exc.msg.install = InstallName
      /\ exc.msg.extra = extra

C2_Witness ==
    /\ Done /\ ImportFails /\ errors = "raise" /\ name = <<"sqlalchemy">>
    /\ extra # "" /\ outcome = "raise"

\* C3: a failed import under warn or ignore returns None, raises nothing,
\* warns of nothing and looks at no version.
C3_MissingReturnsNoneSilently ==
    (Done /\ ImportFails /\ errors \in {"warn", "ignore"}) =>
      /\ ReturnsNone
      /\ exc = NoExc
      /\ warnings = <<>>
      /\ version_reads = 0

\* The package is there, its submodule is not, and the call is under "warn".
C3_Witness ==
    /\ Done /\ ImportFails /\ errors = "warn" /\ top_importable /\ Len(name) = 2
    /\ ReturnsNone

\* C4: an imported module below the floor under errors = "warn": None is
\* returned, nothing is raised, and exactly one warning is emitted, naming the
\* installed and the required version.
C4_TooOldWarns ==
    (Done /\ ImportSucceeds /\ BelowFloor /\ errors = "warn") =>
      /\ ReturnsNone
      /\ exc = NoExc
      /\ Len(warnings) = 1
      /\ warnings[1].installed = VersionStr(Version(ReportedVersion))
      /\ warnings[1].required = VersionStr(Version(Floor))

\* 2.9.3 is below 2.10.3, though "2.9.3" is above "2.10.3" as text.
C4_Witness ==
    /\ Done /\ ImportSucceeds /\ BelowFloor /\ errors = "warn"
    /\ top_version = <<"2", ".", "9", ".", "3">> /\ Floor = <<"2", ".", "1", "0", ".", "3">> /\ Len(warnings) = 1

\* C5: an imported module below a supplied min_version under errors =
\* "raise": ImportError is raised with a message naming the installed and the
\* required version, the same whatever extra is, and no warning is emitted.
C5_TooOldRaises ==
    (Done /\ ImportSucceeds /\ Floor = min_version /\ BelowFloor /\ errors = "raise") =>
      /\ RaisesError("ImportError")
      /\ exc.msg = [kind |-> "version is installed; Dask requires version or newer",
                    parent |-> pkg,
                    installed |-> VersionStr(Version(ReportedVersion)),
                    required |-> VersionStr(Version(min_version))]
      /\ warnings = <<>>

C5_Witness ==
    /\ Done /\ ImportSucceeds /\ Floor = min_version /\ BelowFloor /\ errors = "raise"
    /\ extra # "" /\ outcome = "raise" /\ pkg = "sqlalchemy"

\* C6: an imported module at or above the floor, explicit or from the table,
\* is returned as imported (the submodule for a dotted name) under each of
\* raise, warn and ignore, with no warning and no exception.
C6_MeetsFloorReturnsModule ==
    (Done /\ ImportSucceeds /\ MeetsFloor /\ errors \in PolicyValues) =>
      /\ ReturnsModule
      /\ exc = NoExc
      /\ warnings = <<>>

\* The installed 1.21 equals the table's floor 1.21.0, and a submodule asked for.
C6_Witness ==
    /\ Done /\ ImportSucceeds /\ MeetsFloor /\ errors = "warn"
    /\ pkg = "numpy" /\ min_version = None /\ top_version = <<"1", ".", "2", "1">>
    /\ result = Sub("numpy")

\* C7: with a floor applying, a module whose version is missing, empty or not
\* a version makes the call raise ImportError under every policy.
C7_UndeterminedVersionRaisesImportError ==
    (/\ Done /\ ImportSucceeds /\ FloorApplies /\ errors \in PolicyValues
     /\ ~InstalledParses) =>
      RaisesError("ImportError")

\* C8: an errors value outside raise, warn and ignore fails the assertion
\* before anything else happens: no import, no version read, no warning.
C8_InvalidPolicyFailsFirst ==
    (Done /\ errors \notin PolicyValues) =>
      /\ RaisesError("AssertionError")
      /\ import_calls = 0
      /\ version_reads = 0
      /\ warnings = <<>>
      /\ minimum_version = None

C8_Witness ==
    /\ Done /\ errors = "coerce" /\ top_importable /\ sys_modules = {}
    /\ outcome = "raise"

\* C9: with no min_version and no VERSIONS entry for the top-level package,
\* an imported module is returned under every policy and its version is never
\* looked at, whatever it is.
C9_NoFloorNoVersionCheck ==
    (/\ Done /\ ImportSucceeds /\ errors \in PolicyValues
     /\ min_version = None /\ pkg \notin DOMAIN VERSIONS) =>
      /\ ReturnsModule
      /\ exc = NoExc
      /\ warnings = <<>>
      /\ version_reads = 0

\* The module returned has no __version__ at all.
C9_Witness ==
    /\ Done /\ ImportSucceeds /\ errors = "raise" /\ min_version = None
    /\ pkg = "sqlalchemy" /\ top_version = None /\ ReturnsModule

\* C10, as stated: the minimum used is min_version whenever one is supplied,
\* whatever string it is, and the table entry only when none is supplied.
C10_AsStated ==
    (Done /\ ImportSucceeds /\ errors \in PolicyValues) =>
      /\ min_version # None => minimum_version = min_version
      /\ min_version = None =>
           minimum_version = (IF pkg \in DOMAIN VERSIONS THEN VERSIONS[pkg] ELSE None)

\* C10, amended: the minimum used is min_version whenever a non-empty one is
\* supplied, whatever the table holds; the entry of the table for the segment
\* of name before the first '.' is used when min_version is None or empty.
C10_ExplicitMinimumFirst ==
    (Done /\ ImportSucceeds /\ errors \in PolicyValues) =>
      /\ (min_version # None /\ min_version # <<>>) => minimum_version = min_version
      /\ (min_version = None \/ min_version = <<>>) =>
           minimum_version = (IF pkg \in DOMAIN VERSIONS THEN VERSIONS[pkg] ELSE None)

\* min_version 2.0 is supplied for numpy, whose table entry 1.21.0 the
\* installed 1.21.3 meets: the call fails on 2.0.
C10_Witness ==
    /\ Done /\ ImportSucceeds /\ errors = "raise" /\ pkg = "numpy"
    /\ min_version = <<"2", ".", "0">> /\ top_version = <<"1", ".", "2", "1", ".", "3">>
    /\ minimum_version = <<"2", ".", "0">> /\ outcome = "raise"

=============================================================================
